---- MODULE Spec2Model ----
(***************************************************************************)
(* fSocks: the SOCKS4/SOCKS5 message codec (fsocks/socks.py) and the       *)
(* byte-transform "fuzzing" codecs (fsocks/fuzzing/codec.py).              *)
(*                                                                         *)
(* Bytes are naturals 0..255, byte strings are sequences of bytes, and a   *)
(* Python str is a sequence of Unicode code points.  Enum members are      *)
(* records [enum, value], so that CMD.CONNECT and                          *)
(* REP.GENERAL_SOCKS_SERVER_FAILURE (both 0x01) are different values.      *)
(***************************************************************************)
EXTENDS Integers, Sequences, FiniteSets, TLC

\* ------------------------------------------------------------------------
\* Enumerations (socks.py 13-51): the value set of each Enum class.
\* ------------------------------------------------------------------------
VERSION == {4, 5}

METHOD == {0, 1, 2, 255}

CMD == {1, 2, 3}

ATYPE == {1, 3, 4}

REP == 0 .. 8

Member(enum, v) == [enum |-> enum, value |-> v]

SOCKS4 == Member("VERSION", 4)

SOCKS5 == Member("VERSION", 5)

NO_AUTHENTICATION_REQUIRED == Member("METHOD", 0)

CONNECT == Member("CMD", 1)

UDP == Member("CMD", 3)

IPV4 == Member("ATYPE", 1)

DOMAINNAME == Member("ATYPE", 3)

IPV6 == Member("ATYPE", 4)

SUCCEEDED == Member("REP", 0)

GENERAL_SOCKS_SERVER_FAILURE == Member("REP", 1)

ADDRESS_TYPE_NOT_SUPPORTED == Member("REP", 8)

\* ------------------------------------------------------------------------
\* Sequence helpers
\* ------------------------------------------------------------------------
\* Concatenation of a sequence of sequences (by halves, to keep the
\* evaluation shallow on long inputs).
RECURSIVE Flatten(_)
Flatten(ss) ==
    IF ss = <<>> THEN <<>>
    ELSE IF Len(ss) = 1 THEN ss[1]
    ELSE LET m == Len(ss) \div 2
         IN  Flatten(SubSeq(ss, 1, m)) \o Flatten(SubSeq(ss, m + 1, Len(ss)))

RECURSIVE Join(_, _)
Join(parts, sep) ==
    IF parts = <<>> THEN <<>>
    ELSE IF Len(parts) = 1 THEN parts[1]
    ELSE parts[1] \o <<sep>> \o Join(Tail(parts), sep)

\* str.split(sep): the pieces between the separators (always at least one).
RECURSIVE Split(_, _)
Split(s, sep) ==
    IF \A i \in 1 .. Len(s) : s[i] # sep THEN <<s>>
    ELSE LET k == CHOOSE i \in 1 .. Len(s) :
                      s[i] = sep /\ \A j \in 1 .. i - 1 : s[j] # sep
         IN  <<SubSeq(s, 1, k - 1)>> \o Split(SubSeq(s, k + 1, Len(s)), sep)

Repeat(x, n) == [i \in 1 .. n |-> x]

\* ------------------------------------------------------------------------
\* struct.pack / struct.unpack of '!H' (socks.py 118, 132)
\* ------------------------------------------------------------------------
\* The port unpacked low byte first ('<H' for '!H').
unpack_H_little(b) == b[1] + 256 * b[2]

unpack_H(b) == 256 * b[1] + b[2]

\* The port packed low byte first ('<H' for '!H').
pack_H_little(n) == <<n % 256, n \div 256>>

pack_H(n) == <<n \div 256, n % 256>>

\* ------------------------------------------------------------------------
\* str.encode() / bytes.decode(): strict UTF-8 (socks.py 113, 125-127)
\* ------------------------------------------------------------------------
IsSurrogate(cp) == cp >= 55296 /\ cp <= 57343

Utf8Char(cp) ==
    IF cp < 128 THEN <<cp>>
    ELSE IF cp < 2048 THEN <<192 + (cp \div 64), 128 + (cp % 64)>>
    ELSE IF cp < 65536
         THEN <<224 + (cp \div 4096), 128 + ((cp \div 64) % 64), 128 + (cp % 64)>>
    ELSE <<240 + (cp \div 262144), 128 + ((cp \div 4096) % 64),
           128 + ((cp \div 64) % 64), 128 + (cp % 64)>>

\* str.encode(): UnicodeEncodeError on a lone surrogate.
CanEncode(s) == \A i \in 1 .. Len(s) : ~IsSurrogate(s[i])

Utf8Encode(s) == Flatten([i \in 1 .. Len(s) |-> Utf8Char(s[i])])

IsCont(b) == b >= 128 /\ b <= 191

\* Number of bytes of the well-formed UTF-8 sequence that starts at b[i],
\* 0 when none does (overlong forms, surrogates and > U+10FFFF rejected).
Utf8SeqLen(b, i) ==
    LET n  == Len(b)
        b0 == b[i]
        c1 == IF i + 1 <= n THEN b[i + 1] ELSE 0
        c2 == IF i + 2 <= n THEN b[i + 2] ELSE 0
        c3 == IF i + 3 <= n THEN b[i + 3] ELSE 0
    IN  IF b0 < 128 THEN 1
        ELSE IF b0 >= 194 /\ b0 <= 223 /\ IsCont(c1) THEN 2
        ELSE IF b0 >= 224 /\ b0 <= 239 /\ IsCont(c1) /\ IsCont(c2)
                /\ (b0 = 224 => c1 >= 160) /\ (b0 = 237 => c1 <= 159) THEN 3
        ELSE IF b0 >= 240 /\ b0 <= 244 /\ IsCont(c1) /\ IsCont(c2) /\ IsCont(c3)
                /\ (b0 = 240 => c1 >= 144) /\ (b0 = 244 => c1 <= 143) THEN 4
        ELSE 0

Utf8CodePoint(b, i, k) ==
    IF k = 1 THEN b[i]
    ELSE IF k = 2 THEN (b[i] - 192) * 64 + (b[i + 1] - 128)
    ELSE IF k = 3
         THEN (b[i] - 224) * 4096 + (b[i + 1] - 128) * 64 + (b[i + 2] - 128)
    ELSE (b[i] - 240) * 262144 + (b[i + 1] - 128) * 4096
         + (b[i + 2] - 128) * 64 + (b[i + 3] - 128)

\* In well-formed UTF-8 the sequences start exactly at the bytes that are
\* not continuation bytes: each of those must start a well-formed sequence,
\* and each continuation byte must lie inside one.
Utf8WellFormed(b) ==
    /\ \A i \in 1 .. Len(b) : ~IsCont(b[i]) => Utf8SeqLen(b, i) > 0
    /\ \A i \in 1 .. Len(b) : IsCont(b[i]) =>
           \E j \in 1 .. i - 1 : ~IsCont(b[j]) /\ j + Utf8SeqLen(b, j) > i

\* The code points of the sequences that start in lo .. hi, in order.
RECURSIVE Utf8Text(_, _, _)
Utf8Text(b, lo, hi) ==
    IF lo > hi THEN <<>>
    ELSE IF lo = hi
    THEN (IF IsCont(b[lo]) THEN <<>>
          ELSE <<Utf8CodePoint(b, lo, Utf8SeqLen(b, lo))>>)
    ELSE LET m == (lo + hi) \div 2
         IN  Utf8Text(b, lo, m) \o Utf8Text(b, m + 1, hi)

\* bytes.decode(): [ok, text]; ok = FALSE is UnicodeDecodeError.
Utf8Decode(b) ==
    IF Utf8WellFormed(b) THEN [ok |-> TRUE, text |-> Utf8Text(b, 1, Len(b))]
    ELSE [ok |-> FALSE, text |-> <<>>]

\* ------------------------------------------------------------------------
\* ipaddress.IPv4Address (socks.py 115, 129)
\* ------------------------------------------------------------------------
IsDigit(c) == c >= 48 /\ c <= 57

RECURSIVE DecStr(_)
DecStr(n) == IF n < 10 THEN <<48 + n>> ELSE DecStr(n \div 10) \o <<48 + (n % 10)>>

RECURSIVE DecVal(_)
DecVal(s) == IF s = <<>> THEN 0
             ELSE 10 * DecVal(SubSeq(s, 1, Len(s) - 1)) + (s[Len(s)] - 48)

\* IPv4Address(packed).compressed: dotted decimal.
IPv4Compressed(b) == Join([i \in 1 .. 4 |-> DecStr(b[i])], 46)

\* One octet of the text form: 1-3 ASCII digits, no leading zero, <= 255.
OctetOk(s) ==
    /\ Len(s) >= 1
    /\ Len(s) <= 3
    /\ \A i \in 1 .. Len(s) : IsDigit(s[i])
    /\ (Len(s) > 1 => s[1] # 48)
    /\ DecVal(s) <= 255

\* IPv4Address(text).packed: [ok, packed]; ok = FALSE is AddressValueError.
IPv4Packed(s) ==
    LET parts == Split(s, 46)
    IN  IF Len(parts) = 4 /\ \A i \in 1 .. 4 : OctetOk(parts[i])
        THEN [ok |-> TRUE, packed |-> [i \in 1 .. 4 |-> DecVal(parts[i])]]
        ELSE [ok |-> FALSE, packed |-> <<>>]

\* ------------------------------------------------------------------------
\* ipaddress.IPv6Address (socks.py 117, 131)
\* ------------------------------------------------------------------------
HexDigit(d) == IF d < 10 THEN 48 + d ELSE 87 + d

RECURSIVE HexStr(_)
HexStr(n) == IF n < 16 THEN <<HexDigit(n)>>
             ELSE HexStr(n \div 16) \o <<HexDigit(n % 16)>>

IsHex(c) == IsDigit(c) \/ (c >= 97 /\ c <= 102) \/ (c >= 65 /\ c <= 70)

HexDigitVal(c) == IF IsDigit(c) THEN c - 48
                  ELSE IF c >= 97 THEN c - 87 ELSE c - 55

RECURSIVE HexVal(_)
HexVal(s) == IF s = <<>> THEN 0
             ELSE 16 * HexVal(SubSeq(s, 1, Len(s) - 1)) + HexDigitVal(s[Len(s)])

Hextets(b) == [i \in 1 .. 8 |-> 256 * b[2 * i - 1] + b[2 * i]]

\* Length of the run of zero hextets that starts at index i.
RECURSIVE ZeroRun(_, _)
ZeroRun(h, i) == IF i > Len(h) \/ h[i] # 0 THEN 0 ELSE 1 + ZeroRun(h, i + 1)

\* _compress_hextets: the first longest run of zero hextets, when longer
\* than one, becomes a single empty hextet ("::" after the join).
CompressHextets(h) ==
    LET best  == CHOOSE i \in 1 .. 8 : \A j \in 1 .. 8 :
                     \/ ZeroRun(h, i) > ZeroRun(h, j)
                     \/ (ZeroRun(h, i) = ZeroRun(h, j) /\ i <= j)
        len   == ZeroRun(h, best)
        texts == [i \in 1 .. 8 |-> HexStr(h[i])]
    IN  IF len > 1
        THEN (IF best = 1 THEN <<<<>>>> ELSE <<>>)
             \o SubSeq(texts, 1, best - 1) \o <<<<>>>>
             \o SubSeq(texts, best + len, 8)
             \o (IF best + len = 9 THEN <<<<>>>> ELSE <<>>)
        ELSE texts

\* IPv6Address(packed).compressed
IPv6Compressed(b) == Join(CompressHextets(Hextets(b)), 58)

HextetOk(s) == Len(s) >= 1 /\ Len(s) <= 4 /\ \A i \in 1 .. Len(s) : IsHex(s[i])

\* IPv6Address(text).packed (_ip_int_from_string, hexadecimal groups only):
\* [ok, packed]; ok = FALSE is AddressValueError.
IPv6Packed(s) ==
    LET parts == Split(s, 58)
        n     == Len(parts)
        skips == {i \in 2 .. n - 1 : parts[i] = <<>>}
        skip  == CHOOSE i \in skips : TRUE
        hi0   == skip - 1
        lo0   == n - skip
        hi    == IF parts[1] = <<>> THEN hi0 - 1 ELSE hi0
        lo    == IF parts[n] = <<>> THEN lo0 - 1 ELSE lo0
        bad   == [ok |-> FALSE, packed |-> <<>>]
        Pack(hs) == [ok |-> TRUE,
                     packed |-> Flatten([i \in 1 .. 8 |-> pack_H(hs[i])])]
    IN  IF n < 3 \/ n > 9 \/ Cardinality(skips) > 1 THEN bad
        ELSE IF skips # {}
        THEN IF \/ (parts[1] = <<>> /\ hi # 0)
                \/ (parts[n] = <<>> /\ lo # 0)
                \/ 8 - (hi + lo) < 1
                \/ \E i \in 1 .. hi : ~HextetOk(parts[i])
                \/ \E i \in n - lo + 1 .. n : ~HextetOk(parts[i])
             THEN bad
             ELSE Pack([i \in 1 .. hi |-> HexVal(parts[i])]
                       \o Repeat(0, 8 - (hi + lo))
                       \o [i \in 1 .. lo |-> HexVal(parts[n - lo + i])])
        ELSE IF n # 8 \/ \E i \in 1 .. n : ~HextetOk(parts[i]) THEN bad
        ELSE Pack([i \in 1 .. 8 |-> HexVal(parts[i])])

\* ------------------------------------------------------------------------
\* State
\* ------------------------------------------------------------------------
VARIABLES
    cls,      \* the Packet class in use: "Message", "ClientGreeting", "ServerGreeting"
    request,  \* the request argument of Message.from_stream
    packet,   \* the object to_stream is called on (NoPacket when decoding raw bytes)
    stream,   \* every byte the stream holds, in order
    pos,      \* how many of them read_all has consumed
    reads,    \* the read_all calls issued so far: [n, ok]
    pc,       \* "to_stream", "from_stream", a position inside from_stream,
              \* "returned" or "raised"
    loc,      \* the local variables of the running from_stream
    result,   \* the object from_stream returned (NoPacket before that)
    err,      \* the exception that left to_stream / from_stream: [kind, code]
    codec,    \* fuzzing codec under test
    data,     \* its plaintext input
    encoded,  \* encode(data)
    decoded,  \* decode(encode(data))
    cpc       \* "encode", "decode", "done" ("idle" when the codec is not in use)

socksVars == <<cls, request, packet, stream, pos, reads, pc, loc, result, err>>

codecVars == <<codec, data, encoded, decoded, cpc>>

vars == <<cls, request, packet, stream, pos, reads, pc, loc, result, err,
          codec, data, encoded, decoded, cpc>>

NoPacket == [cls |-> "None"]

NoCode == Member("None", 0)

NoErr == [kind |-> "none", code |-> NoCode]

Error(kind, code) == [kind |-> kind, code |-> code]

\* ProxyError.__init__ (socks.py 7-10)
ProxyError(code) == Error("ProxyError", code)

NoLoc == [ver |-> NoCode, msg |-> NoCode, atype |-> NoCode,
          alen |-> 0, host |-> <<>>, nmethods |-> 0]

\* Message.__init__ (socks.py 85-89)
Message(ver, msg, atype, addr) ==
    [cls |-> "Message", ver |-> ver, msg |-> msg, atype |-> atype, addr |-> addr]

\* ClientGreeting.__init__ (socks.py 144-147)
ClientGreeting(ver, nmethods, methods) ==
    [cls |-> "ClientGreeting", ver |-> ver, nmethods |-> nmethods,
     methods |-> methods]

\* ServerGreeting.__init__ (socks.py 172-175)
ServerGreeting(ver, method) ==
    [cls |-> "ServerGreeting", ver |-> ver, method |-> method]

\* Message.is_request (socks.py 91-93)
is_request(p) == p.msg.enum = "CMD"

\* ------------------------------------------------------------------------
\* Inputs
\* ------------------------------------------------------------------------
\* Largest value of a struct 'B' field.
UByteMax == 255

\* Largest value of a struct 'H' field.
UShortMax == 65535

\* How far past UByteMax / UShortMax the oversized inputs go.
MaxOver == 1

\* Longest method list of the enumerated greetings.
MaxMethods == 2

Txt_localhost == <<108, 111, 99, 97, 108, 104, 111, 115, 116>>

Txt_e_acute == <<233>>

Txt_euro_a == <<8364, 97>>

Txt_surrogate == <<97, 55296>>

Txt_127_0_0_1 == <<49, 50, 55, 46, 48, 46, 48, 46, 49>>

Txt_10_20_30_255 == <<49, 48, 46, 50, 48, 46, 51, 48, 46, 50, 53, 53>>

Txt_1_2_3 == <<49, 46, 50, 46, 51>>

Txt_v6_any == <<58, 58>>

Txt_v6_loopback == <<58, 58, 49>>

Txt_v6_doc == <<50, 48, 48, 49, 58, 100, 98, 56, 58, 58, 49>>

Txt_v6_two_runs == <<49, 58, 48, 58, 48, 58, 50, 58, 58, 51>>

Txt_v6_tail == <<102, 101, 56, 48, 58, 58>>

Txt_v6_full == <<49, 58, 50, 58, 51, 58, 52, 58, 53, 58, 54, 58, 55, 58, 56>>

Txt_v6_uncompressed == <<48, 58, 48, 58, 48, 58, 48, 58, 48, 58, 48, 58, 48, 58, 49>>

\* Host texts already in the form from_stream produces for their address type.
CanonicalHosts(atype) ==
    IF atype = IPV4 THEN {Txt_127_0_0_1, Txt_10_20_30_255}
    ELSE IF atype = IPV6
    THEN {Txt_v6_any, Txt_v6_loopback, Txt_v6_doc, Txt_v6_two_runs,
          Txt_v6_tail, Txt_v6_full}
    ELSE {<<>>, Txt_localhost, Txt_e_acute, Txt_euro_a, Txt_127_0_0_1,
          Repeat(97, UByteMax), Repeat(233, UByteMax \div 2) \o <<97>>}

\* Host texts a caller can also construct a Message with.
OtherHosts(atype) ==
    IF atype = IPV4 THEN {Txt_1_2_3, Txt_localhost}
    ELSE IF atype = IPV6 THEN {Txt_v6_uncompressed, Txt_127_0_0_1}
    ELSE {Txt_surrogate}
         \cup {Repeat(97, n) : n \in UByteMax + 1 .. UByteMax + MaxOver}
         \cup {Repeat(233, n) : n \in UByteMax \div 2 + 1 .. UByteMax \div 2 + MaxOver}

Ports == {0, 80, 443, UShortMax}

OtherPorts == UShortMax + 1 .. UShortMax + MaxOver

Versions == {Member("VERSION", v) : v \in VERSION}

Msgs == {Member("CMD", v) : v \in CMD} \cup {Member("REP", v) : v \in {0, 1, 8}}

Atypes == {Member("ATYPE", v) : v \in ATYPE}

Methods == {Member("METHOD", v) : v \in METHOD}

SeqsUpTo(S, n) == UNION {[1 .. k -> S] : k \in 0 .. n}

\* Message values that satisfy the data model.
ValidMessages ==
    UNION {{Message(v, m, a, <<h, p>>) :
               v \in Versions, m \in Msgs, p \in Ports, h \in CanonicalHosts(a)} :
           a \in Atypes}

\* Message values whose address to_bytes cannot encode, or encodes to the
\* bytes of a different text.
OtherMessages ==
    UNION {{Message(v, m, a, <<h, p>>) :
               v \in {SOCKS5}, m \in {CONNECT, SUCCEEDED}, p \in {80},
               h \in OtherHosts(a)} : a \in Atypes}
    \cup {Message(SOCKS5, CONNECT, IPV4, <<Txt_127_0_0_1, p>>) : p \in OtherPorts}

\* ClientGreeting values that satisfy the data model: the stored count is
\* the length of the list.
ValidClientGreetings ==
    {ClientGreeting(v, Len(ms), ms) :
        v \in Versions, ms \in SeqsUpTo(Methods, MaxMethods)}
    \cup {ClientGreeting(SOCKS5, UByteMax, Repeat(NO_AUTHENTICATION_REQUIRED, UByteMax))}

\* ClientGreeting values whose stored count differs from the list, or does
\* not fit the count byte.
OtherClientGreetings ==
    {ClientGreeting(SOCKS5, n, ms) :
        n \in 0 .. MaxMethods + 1, ms \in SeqsUpTo(Methods, MaxMethods)}
    \cup {ClientGreeting(SOCKS5, n, Repeat(NO_AUTHENTICATION_REQUIRED, n)) :
            n \in UByteMax + 1 .. UByteMax + MaxOver}

ValidServerGreetings == {ServerGreeting(v, m) : v \in Versions, m \in Methods}

Packets ==
    ValidMessages \cup OtherMessages \cup ValidClientGreetings
    \cup OtherClientGreetings \cup ValidServerGreetings

Prefixes(s) == {SubSeq(s, 1, n) : n \in 0 .. Len(s)}

\* What follows the 4 header bytes of a Message on the raw streams: an
\* address, a port and further bytes, cut at every length.
Tails ==
    Prefixes(<<127, 0, 0, 1, 0, 80, 5, 1>>)
    \cup Prefixes(<<9>> \o Txt_localhost \o <<1, 187, 5>>)
    \cup Prefixes(<<2, 195, 169, 0, 80>>)
    \cup Prefixes(<<1, 255, 0, 80>>)
    \cup Prefixes(<<0, 1, 0>>)
    \cup Prefixes(<<32, 1, 13, 184, 0, 0, 0, 0, 0, 0, 0, 0, 0, 0, 0, 1, 1, 187, 5>>)

MessageStreams ==
    {<<v, m, r, a>> \o t :
        v \in {4, 5, 6}, m \in {0, 1, 3, 4, 9}, r \in {0, 1, 255},
        a \in {1, 2, 3, 4}, t \in Tails}
    \cup Prefixes(<<5, 1, 1>>)

MethodBytes == {0, 2, 3, 255}

ClientGreetingStreams ==
    {<<v, n>> \o ms \o t :
        v \in {4, 5, 6}, n \in 0 .. MaxMethods + 1,
        ms \in SeqsUpTo(MethodBytes, MaxMethods), t \in {<<>>, <<5>>}}
    \cup Prefixes(<<5>>)

ServerGreetingStreams ==
    {<<v, m>> \o t : v \in {4, 5, 6}, m \in MethodBytes \cup {1}, t \in {<<>>, <<5>>}}
    \cup Prefixes(<<5>>)

\* ------------------------------------------------------------------------
\* The byte stream (fsocks stream class; read_all / write_all)
\* ------------------------------------------------------------------------
\* stream.read_all(n): exactly the next n bytes, or a failure when the
\* stream ends first (the bytes that did arrive are consumed).
read_all(n) ==
    IF pos + n <= Len(stream)
    THEN [ok |-> TRUE, data |-> SubSeq(stream, pos + 1, pos + n), pos |-> pos + n]
    ELSE [ok |-> FALSE, data |-> <<>>, pos |-> Len(stream)]

\* stream.write_all(b)
write_all(b) == stream \o b

StreamError == Error("StreamError", NoCode)

\* ------------------------------------------------------------------------
\* to_bytes (socks.py 121-133, 158-163, 184-185): [ok, data, err]
\* ------------------------------------------------------------------------
Bytes(b) == [ok |-> TRUE, data |-> b, err |-> NoErr]

Raises(kind) == [ok |-> FALSE, data |-> <<>>, err |-> Error(kind, NoCode)]

\* Message.rsv
Message_rsv == 0

\* The length of the text instead of the length of its UTF-8 form.
Message_alen_chars(host) == Len(host)

\* alen = len(self.addr[0].encode())
Message_alen(host) == Len(Utf8Encode(host))

\* struct.pack('!B{}s'.format(alen), alen, self.addr[0].encode())
pack_B_s(alen, b) ==
    IF alen > UByteMax THEN Raises("struct.error")
    ELSE Bytes(<<alen>> \o SubSeq(b, 1, alen) \o Repeat(0, alen - Len(b)))

Message_addr_bytes(self) ==
    LET host == self.addr[1]
    IN  IF self.atype = DOMAINNAME
        THEN IF ~CanEncode(host) THEN Raises("UnicodeEncodeError")
             ELSE pack_B_s(Message_alen(host), Utf8Encode(host))
        ELSE IF self.atype = IPV4
        THEN IF IPv4Packed(host).ok THEN Bytes(IPv4Packed(host).packed)
             ELSE Raises("AddressValueError")
        ELSE IF IPv6Packed(host).ok THEN Bytes(IPv6Packed(host).packed)
             ELSE Raises("AddressValueError")

Message_to_bytes(self) ==
    LET head == <<self.ver.value, self.msg.value, Message_rsv, self.atype.value>>
        addr == Message_addr_bytes(self)
    IN  IF ~addr.ok THEN addr
        ELSE IF self.addr[2] > UShortMax THEN Raises("struct.error")
        ELSE Bytes(head \o addr.data \o pack_H(self.addr[2]))

\* to_bytes without its assert statement.
ClientGreeting_to_bytes_unchecked(self) ==
    IF self.nmethods > UByteMax THEN Raises("struct.error")
    ELSE Bytes(<<self.ver.value, self.nmethods>>
               \o [i \in 1 .. Len(self.methods) |-> self.methods[i].value])

ClientGreeting_to_bytes(self) ==
    IF self.nmethods # Len(self.methods) THEN Raises("AssertionError")
    ELSE IF self.nmethods > UByteMax THEN Raises("struct.error")
    ELSE Bytes(<<self.ver.value, self.nmethods>>
               \o [i \in 1 .. Len(self.methods) |-> self.methods[i].value])

ServerGreeting_to_bytes(self) == Bytes(<<self.ver.value, self.method.value>>)

to_bytes(self) ==
    IF self.cls = "Message" THEN Message_to_bytes(self)
    ELSE IF self.cls = "ClientGreeting" THEN ClientGreeting_to_bytes(self)
    ELSE ServerGreeting_to_bytes(self)

\* ------------------------------------------------------------------------
\* from_stream, the parts between two reads
\* ------------------------------------------------------------------------
\* An Enum that takes any value.
IsMember_open(values, b) == TRUE

\* Enum(value): TRUE when value is a member's value, FALSE is ValueError.
IsMember(values, b) == b \in values

\* The header with the conversions made before the RSV check.
Message_header_rsv_last(h, req) ==
    IF ~(/\ h[1] \in VERSION
         /\ h[2] \in (IF req THEN CMD ELSE REP)
         /\ h[4] \in ATYPE)
    THEN [err |-> Error("AttributeError", NoCode)]
    ELSE IF h[3] # 0
    THEN [err |-> ProxyError(GENERAL_SOCKS_SERVER_FAILURE)]
    ELSE [err   |-> NoErr,
          ver   |-> Member("VERSION", h[1]),
          msg   |-> Member(IF req THEN "CMD" ELSE "REP", h[2]),
          atype |-> Member("ATYPE", h[4])]

\* Message.from_stream, lines 99-110, on the 4 header bytes:
\* the RSV check, then the three conversions inside try/except.  The
\* handler of ValueError evaluates e.message, which a Python 3 exception
\* does not have: AttributeError leaves instead of the ProxyError.
Message_header(h, req) ==
    IF h[3] # Message_rsv
    THEN [err |-> ProxyError(GENERAL_SOCKS_SERVER_FAILURE)]
    ELSE IF /\ IsMember(VERSION, h[1])
            /\ IsMember(IF req THEN CMD ELSE REP, h[2])
            /\ IsMember(ATYPE, h[4])
    THEN [err   |-> NoErr,
          ver   |-> Member("VERSION", h[1]),
          msg   |-> Member(IF req THEN "CMD" ELSE "REP", h[2]),
          atype |-> Member("ATYPE", h[4])]
    ELSE [err |-> Error("AttributeError", NoCode)]

\* ClientGreeting.from_stream, lines 154-156, on what was read.
ClientGreeting_convert(ver, nmethods, methods) ==
    IF /\ IsMember(VERSION, ver)
       /\ \A i \in 1 .. Len(methods) : IsMember(METHOD, methods[i])
    THEN [err |-> NoErr,
          value |-> ClientGreeting(Member("VERSION", ver), nmethods,
                       [i \in 1 .. Len(methods) |-> Member("METHOD", methods[i])])]
    ELSE [err |-> Error("ValueError", NoCode), value |-> NoPacket]

\* ServerGreeting.from_stream, lines 180-182, on the 2 bytes read.
ServerGreeting_convert(b) ==
    IF IsMember(VERSION, b[1]) /\ IsMember(METHOD, b[2])
    THEN [err |-> NoErr,
          value |-> ServerGreeting(Member("VERSION", b[1]), Member("METHOD", b[2]))]
    ELSE [err |-> Error("ValueError", NoCode), value |-> NoPacket]

\* Sizes of the fixed-length reads.
HeaderLen == 4

IPv4Len == 4

IPv6Len == 16

\* The port read as a 4-byte field.
PortLen_long == 2 + 2

PortLen == 2

GreetingLen == 2

\* ------------------------------------------------------------------------
\* Actions
\* ------------------------------------------------------------------------
\* One read_all(n) with result r, and where the decoder stands after it.
Step(r, n, npc, nloc, nresult, nerr) ==
    /\ pos' = r.pos
    /\ reads' = Append(reads, [n |-> n, ok |-> r.ok])
    /\ pc' = npc
    /\ loc' = nloc
    /\ result' = nresult
    /\ err' = nerr
    /\ UNCHANGED <<cls, request, packet, stream>>
    /\ UNCHANGED codecVars

\* A failure after which the decoder tries the same statement again.
Raise_retry(r, n, e) == Step(r, n, pc, loc, NoPacket, NoErr)

\* An exception leaves from_stream.
Raise(r, n, e) == Step(r, n, "raised", loc, NoPacket, e)

\* Packet.to_stream: stream.write_all(self.to_bytes())
to_stream ==
    /\ pc = "to_stream"
    /\ LET b == to_bytes(packet)
       IN  IF b.ok
           THEN /\ stream' = write_all(b.data)
                /\ pc' = "from_stream"
                /\ err' = NoErr
           ELSE /\ stream' = stream
                /\ pc' = "to_stream_raised"
                /\ err' = b.err
    /\ UNCHANGED <<cls, request, packet, pos, reads, loc, result>>
    /\ UNCHANGED codecVars

\* Message.from_stream, lines 98-110
Message_read_header ==
    /\ cls = "Message"
    /\ pc = "from_stream"
    /\ LET r == read_all(HeaderLen)
           h == Message_header(r.data, request)
       IN  IF ~r.ok THEN Raise(r, HeaderLen, StreamError)
           ELSE IF h.err # NoErr THEN Raise(r, HeaderLen, h.err)
           ELSE Step(r, HeaderLen, "read_addr",
                     [loc EXCEPT !.ver = h.ver, !.msg = h.msg, !.atype = h.atype],
                     NoPacket, NoErr)

\* line 112
Message_read_alen ==
    /\ cls = "Message"
    /\ pc = "read_addr"
    /\ loc.atype = DOMAINNAME
    /\ LET r == read_all(1)
       IN  IF ~r.ok THEN Raise(r, 1, StreamError)
           ELSE Step(r, 1, "read_host", [loc EXCEPT !.alen = r.data[1]],
                     NoPacket, NoErr)

\* line 113
Message_read_host ==
    /\ cls = "Message"
    /\ pc = "read_host"
    /\ LET r == read_all(loc.alen)
           t == Utf8Decode(r.data)
       IN  IF ~r.ok THEN Raise(r, loc.alen, StreamError)
           ELSE IF ~t.ok THEN Raise(r, loc.alen, Error("UnicodeDecodeError", NoCode))
           ELSE Step(r, loc.alen, "read_port", [loc EXCEPT !.host = t.text],
                     NoPacket, NoErr)

\* lines 114-115
Message_read_ipv4 ==
    /\ cls = "Message"
    /\ pc = "read_addr"
    /\ loc.atype = IPV4
    /\ LET r == read_all(IPv4Len)
       IN  IF ~r.ok THEN Raise(r, IPv4Len, StreamError)
           ELSE Step(r, IPv4Len, "read_port",
                     [loc EXCEPT !.host = IPv4Compressed(r.data)], NoPacket, NoErr)

\* lines 116-117
Message_read_ipv6 ==
    /\ cls = "Message"
    /\ pc = "read_addr"
    /\ loc.atype = IPV6
    /\ LET r == read_all(IPv6Len)
       IN  IF ~r.ok THEN Raise(r, IPv6Len, StreamError)
           ELSE Step(r, IPv6Len, "read_port",
                     [loc EXCEPT !.host = IPv6Compressed(r.data)], NoPacket, NoErr)

\* lines 118-119
Message_read_port ==
    /\ cls = "Message"
    /\ pc = "read_port"
    /\ LET r == read_all(PortLen)
       IN  IF ~r.ok THEN Raise(r, PortLen, StreamError)
           ELSE Step(r, PortLen, "returned", loc,
                     Message(loc.ver, loc.msg, loc.atype,
                             <<loc.host, unpack_H(r.data)>>),
                     NoErr)

\* ClientGreeting.from_stream, line 151
ClientGreeting_read_header ==
    /\ cls = "ClientGreeting"
    /\ pc = "from_stream"
    /\ LET r == read_all(GreetingLen)
       IN  IF ~r.ok THEN Raise(r, GreetingLen, StreamError)
           ELSE Step(r, GreetingLen, "read_methods",
                     [loc EXCEPT !.ver = Member("byte", r.data[1]),
                                 !.nmethods = r.data[2]],
                     NoPacket, NoErr)

\* lines 152-156
ClientGreeting_read_methods ==
    /\ cls = "ClientGreeting"
    /\ pc = "read_methods"
    /\ LET r == read_all(loc.nmethods)
           c == ClientGreeting_convert(loc.ver.value, loc.nmethods, r.data)
       IN  IF ~r.ok THEN Raise(r, loc.nmethods, StreamError)
           ELSE IF c.err # NoErr THEN Raise(r, loc.nmethods, c.err)
           ELSE Step(r, loc.nmethods, "returned", loc, c.value, NoErr)

\* ServerGreeting.from_stream, lines 179-182
ServerGreeting_from_stream ==
    /\ cls = "ServerGreeting"
    /\ pc = "from_stream"
    /\ LET r == read_all(GreetingLen)
           c == ServerGreeting_convert(r.data)
       IN  IF ~r.ok THEN Raise(r, GreetingLen, StreamError)
           ELSE IF c.err # NoErr THEN Raise(r, GreetingLen, c.err)
           ELSE Step(r, GreetingLen, "returned", loc, c.value, NoErr)

CodecIdle ==
    /\ codec = "None"
    /\ data = <<>>
    /\ encoded = <<>>
    /\ decoded = <<>>
    /\ cpc = "idle"

\* A packet about to be written and read back, or raw bytes about to be read.
Init ==
    /\ \/ /\ packet \in Packets
          /\ cls = packet.cls
          /\ request \in (IF packet.cls = "Message" THEN BOOLEAN ELSE {TRUE})
          /\ stream = <<>>
          /\ pc = "to_stream"
       \/ /\ packet = NoPacket
          /\ \/ cls = "Message" /\ request \in BOOLEAN /\ stream \in MessageStreams
             \/ cls = "ClientGreeting" /\ request = TRUE
                  /\ stream \in ClientGreetingStreams
             \/ cls = "ServerGreeting" /\ request = TRUE
                  /\ stream \in ServerGreetingStreams
          /\ pc = "from_stream"
    /\ pos = 0
    /\ reads = <<>>
    /\ loc = NoLoc
    /\ result = NoPacket
    /\ err = NoErr
    /\ CodecIdle

Next ==
    \/ to_stream
    \/ Message_read_header
    \/ Message_read_alen
    \/ Message_read_host
    \/ Message_read_ipv4
    \/ Message_read_ipv6
    \/ Message_read_port
    \/ ClientGreeting_read_header
    \/ ClientGreeting_read_methods
    \/ ServerGreeting_from_stream

Spec == Init /\ [][Next]_vars

\* ------------------------------------------------------------------------
\* fuzzing/codec.py
\* ------------------------------------------------------------------------
\* byte2bit: bin(value)[2:].zfill(8), most significant bit first.
byte2bit(value) == [i \in 1 .. 8 |-> (value \div (2 ^ (8 - i))) % 2]

\* bit2byte: int(bits, base=2)
RECURSIVE bit2byte(_)
bit2byte(bits) ==
    IF bits = <<>> THEN 0
    ELSE 2 * bit2byte(SubSeq(bits, 1, Len(bits) - 1)) + bits[Len(bits)]

\* XXencode.table
XXencode_table ==
    <<43, 45, 48, 49, 50, 51, 52, 53, 54, 55, 56, 57, 65, 66, 67, 68, 69,
      70, 71, 72, 73, 74, 75, 76, 77, 78, 79, 80, 81, 82, 83, 84, 85, 86,
      87, 88, 89, 90, 97, 98, 99, 100, 101, 102, 103, 104, 105, 106, 107,
      108, 109, 110, 111, 112, 113, 114, 115, 116, 117, 118, 119, 120, 121,
      122>>

\* UUencode.table: bytearray(range(32, 96))
UUencode_table == [i \in 1 .. 64 |-> 31 + i]

\* bytearray.find(b): 0-based index of the first b (the tables hold no
\* byte twice, and decode is applied to table bytes only).
find(table, b) == (CHOOSE i \in 1 .. Len(table) : table[i] = b) - 1

\* The padding count without the special case of no remainder.
Paddings_full(n) == 3 - (n % 3)

\* paddings = 0 if not remains else 3 - remains
Paddings(n) == IF n % 3 = 0 THEN 0 ELSE 3 - (n % 3)

\* The 4 table bytes of the 3 data bytes that start at index i (1-based).
XXencode_group(table, d, i) ==
    LET bits == byte2bit(d[i]) \o byte2bit(d[i + 1]) \o byte2bit(d[i + 2])
    IN  [k \in 1 .. 4 |-> table[bit2byte(SubSeq(bits, 6 * k - 5, 6 * k)) + 1]]

\* XXencode.encode
XXencode_encode(table, d) ==
    LET paddings == Paddings(Len(d))
        padded   == d \o Repeat(0, paddings)
    IN  <<paddings>>
        \o Flatten([g \in 1 .. Len(padded) \div 3 |->
                       XXencode_group(table, padded, 3 * g - 2)])

\* XXencode.decode: [ok, data]; ok = FALSE is the AssertionError of
\* "assert len(bits) % 8 == 0".
XXencode_decode(table, d) ==
    LET paddings == d[1]
        body     == Tail(d)
        bits     == Flatten([i \in 1 .. Len(body) |->
                                SubSeq(byte2bit(find(table, body[i])), 3, 8)])
        bytes    == [i \in 1 .. Len(bits) \div 8 |->
                        bit2byte(SubSeq(bits, 8 * i - 7, 8 * i))]
    IN  IF Len(bits) % 8 # 0 THEN [ok |-> FALSE, data |-> <<>>]
        ELSE IF paddings # 0
        THEN [ok |-> TRUE, data |-> SubSeq(bytes, 1, Len(bytes) - paddings)]
        ELSE [ok |-> TRUE, data |-> bytes]

\* abs(0xFF - b)
AtBash_byte(b) == IF 255 - b < 0 THEN b - 255 ELSE 255 - b

\* AtBash.encode
AtBash_encode(d) == [i \in 1 .. Len(d) |-> AtBash_byte(d[i])]

\* encode of each codec
encode(c, d) ==
    IF c = "Plain" THEN d
    ELSE IF c = "XXencode" THEN XXencode_encode(XXencode_table, d)
    ELSE IF c = "UUencode" THEN XXencode_encode(UUencode_table, d)
    ELSE AtBash_encode(d)

\* decode of each codec; AtBash.decode is self.encrypt(data)
decode(c, d) ==
    IF c = "Plain" THEN [ok |-> TRUE, data |-> d]
    ELSE IF c = "XXencode" THEN XXencode_decode(XXencode_table, d)
    ELSE IF c = "UUencode" THEN XXencode_decode(UUencode_table, d)
    ELSE [ok |-> TRUE, data |-> encode(c, d)]

Codecs == {"Plain", "XXencode", "UUencode", "AtBash"}

\* Longest plaintext of the enumerated codec inputs.
MaxData == 4

DataBytes == {0, 1, 65, 128, 255}

socksIdle ==
    /\ cls = "None"
    /\ request = TRUE
    /\ packet = NoPacket
    /\ stream = <<>>
    /\ pos = 0
    /\ reads = <<>>
    /\ pc = "idle"
    /\ loc = NoLoc
    /\ result = NoPacket
    /\ err = NoErr

CodecInit ==
    /\ codec \in Codecs
    /\ data \in SeqsUpTo(DataBytes, MaxData)
    /\ encoded = <<>>
    /\ decoded = <<>>
    /\ cpc = "encode"
    /\ socksIdle

\* CodecFuzz.encrypt: self.encode(data)
encrypt ==
    /\ cpc = "encode"
    /\ encoded' = encode(codec, data)
    /\ cpc' = "decode"
    /\ UNCHANGED <<codec, data, decoded>>
    /\ UNCHANGED socksVars

\* CodecFuzz.decrypt: self.decode(data), on what encrypt produced
decrypt ==
    /\ cpc = "decode"
    /\ LET d == decode(codec, encoded)
       IN  /\ decoded' = d.data
           /\ cpc' = IF d.ok THEN "done" ELSE "raised"
    /\ UNCHANGED <<codec, data, encoded>>
    /\ UNCHANGED socksVars

CodecNext == encrypt \/ decrypt

SpecCodec == CodecInit /\ [][CodecNext]_vars

\* ------------------------------------------------------------------------
\* Properties
\* ------------------------------------------------------------------------
ValidPackets == ValidMessages \cup ValidClientGreetings \cup ValidServerGreetings

AllReadsOk == \A i \in 1 .. Len(reads) : reads[i].ok

\* C1: Round-trip.  A valid ClientGreeting, ServerGreeting or Message that is
\* written with to_bytes and read back with from_stream (a Message in the
\* mode of its msg: request for a CMD, reply for a REP) never raises, and
\* the object returned has the fields of the one written; the read consumes
\* all the bytes written.
C1_RoundTrip ==
    (/\ packet \in ValidPackets
     /\ (cls = "Message" => request = is_request(packet)))
    => /\ pc \notin {"raised", "to_stream_raised"}
       /\ (pc = "returned" => result = packet /\ pos = Len(stream))

C1_Witness ==
    /\ pc = "returned"
    /\ packet \in ValidMessages
    /\ packet.atype = IPV6
    /\ packet.addr[1] = Txt_v6_two_runs
    /\ packet.msg = ADDRESS_TYPE_NOT_SUPPORTED
    /\ ~request
    /\ result = packet

\* C2: Reserved byte.  Reading a Message from a stream that holds the 4
\* header bytes with a third byte other than 0x00 ends, in request and in
\* reply mode and whatever the other bytes are, with a ProxyError carrying
\* GENERAL_SOCKS_SERVER_FAILURE; nothing is returned.
C2_ReservedByte ==
    (/\ cls = "Message"
     /\ Len(stream) >= 4
     /\ stream[3] # 0
     /\ pc # "from_stream")
    => /\ pc = "raised"
       /\ err = ProxyError(GENERAL_SOCKS_SERVER_FAILURE)
       /\ result = NoPacket

C2_Witness ==
    /\ cls = "Message"
    /\ ~request
    /\ Len(stream) >= 4
    /\ stream[1] = 6
    /\ stream[2] = 9
    /\ stream[3] = 255
    /\ stream[4] = 2
    /\ pc = "raised"
    /\ err = ProxyError(GENERAL_SOCKS_SERVER_FAILURE)

\* The stream holds an enumerated header byte that is no value of its Enum.
BadVersion == Len(stream) >= 1 /\ stream[1] \notin VERSION

BadMsg ==
    /\ cls = "Message"
    /\ Len(stream) >= 2
    /\ stream[2] \notin (IF request THEN CMD ELSE REP)

BadAtype == cls = "Message" /\ Len(stream) >= 4 /\ stream[4] \notin ATYPE

BadMethod ==
    \/ /\ cls = "ServerGreeting"
       /\ Len(stream) >= 2
       /\ stream[2] \notin METHOD
    \/ /\ cls = "ClientGreeting"
       /\ Len(stream) >= 2
       /\ \E i \in 3 .. 2 + stream[2] : i <= Len(stream) /\ stream[i] \notin METHOD

BadEnumByte == BadVersion \/ BadMsg \/ BadAtype \/ BadMethod

\* C3: Enumeration closure.  Reading any of the three message types from a
\* stream with a version, method, command / reply (by the request flag) or
\* address-type byte outside its Enum never returns a message.
C3_EnumClosure ==
    (cls # "None" /\ BadEnumByte)
    => /\ pc # "returned"
       /\ result = NoPacket

C3_Witness ==
    /\ cls = "ClientGreeting"
    /\ packet = NoPacket
    /\ stream = <<6, 2, 0, 2>>
    /\ pc = "raised"
    /\ AllReadsOk

\* The decode failed on an Enum conversion: every read succeeded, the
\* reserved byte was right, and a header byte is no value of its Enum.
EnumFailure ==
    /\ pc = "raised"
    /\ AllReadsOk
    /\ BadEnumByte
    /\ (cls = "Message" => stream[3] = 0)

\* C4: Error kind of an enumeration failure.  A decode that fails on an Enum
\* conversion raises ProxyError, with ADDRESS_TYPE_NOT_SUPPORTED when the
\* address-type byte is the one not supported and
\* GENERAL_SOCKS_SERVER_FAILURE otherwise.
C4_EnumErrorKind ==
    EnumFailure
    => /\ err.kind = "ProxyError"
       /\ err.code = IF BadAtype /\ ~BadVersion /\ ~BadMsg
                     THEN ADDRESS_TYPE_NOT_SUPPORTED
                     ELSE GENERAL_SOCKS_SERVER_FAILURE

\* C5: Address-type branching.  A Message read that returns has consumed,
\* after the 4 header bytes, 4+2 bytes for ATYP 0x01, 16+2 for ATYP 0x04 and
\* 1+L+2 for ATYP 0x03 (L the byte after the header), has asked the stream
\* for exactly those bytes, and has left the following bytes unread.
C5_Consumed ==
    (cls = "Message" /\ pc = "returned")
    => LET after == IF stream[4] = 1 THEN 4 + 2
                    ELSE IF stream[4] = 4 THEN 16 + 2
                    ELSE 1 + stream[5] + 2
           asked == IF stream[4] = 1 THEN <<4, 4, 2>>
                    ELSE IF stream[4] = 4 THEN <<4, 16, 2>>
                    ELSE <<4, 1, stream[5], 2>>
       IN  /\ pos = 4 + after
           /\ pos <= Len(stream)
           /\ [i \in 1 .. Len(reads) |-> reads[i].n] = asked

C5_Witness ==
    /\ cls = "Message"
    /\ pc = "returned"
    /\ stream[4] = 3
    /\ stream[5] = 9
    /\ pos = 16
    /\ Len(stream) = 17

\* What to_bytes must have emitted for a ClientGreeting: version, the
\* number of methods, the methods in order.
GreetingEmitted ==
    /\ pc # "to_stream_raised"
    /\ Len(stream) = 2 + Len(packet.methods)
    /\ stream[1] = packet.ver.value
    /\ stream[2] = Len(packet.methods)
    /\ \A i \in 1 .. Len(packet.methods) : stream[2 + i] = packet.methods[i].value

\* C6, as claimed: encoding a ClientGreeting of up to 255 methods always
\* emits the number of methods and then the methods, whatever count is
\* stored in it.
C6_CountDerived ==
    (/\ cls = "ClientGreeting"
     /\ packet # NoPacket
     /\ Len(packet.methods) <= UByteMax
     /\ pc # "to_stream")
    => GreetingEmitted

\* C6, amended: to_bytes emits the stored nmethods after asserting that it
\* equals the number of methods.  When it returns bytes, the count byte is
\* the number of methods and exactly that many method bytes follow in order;
\* when the stored count differs from the list, it raises AssertionError
\* and nothing is emitted.
C6_CountAsserted ==
    (/\ cls = "ClientGreeting"
     /\ packet # NoPacket
     /\ pc # "to_stream")
    => /\ (packet.nmethods # Len(packet.methods)
             => /\ pc = "to_stream_raised"
                /\ err.kind = "AssertionError"
                /\ stream = <<>>)
       /\ (packet.nmethods = Len(packet.methods) /\ packet.nmethods <= UByteMax
             => GreetingEmitted)
       /\ (pc # "to_stream_raised" => GreetingEmitted)

C6_Witness ==
    /\ cls = "ClientGreeting"
    /\ packet # NoPacket
    /\ packet.nmethods = 1
    /\ Len(packet.methods) = 2
    /\ pc = "to_stream_raised"
    /\ err.kind = "AssertionError"

Example1 == <<5, 1, 0, 1, 127, 0, 0, 1, 0, 80>>

Example2 == <<5, 3, 0, 3, 9>> \o Txt_localhost \o <<1, 187>>

\* C7: Big-endian port.  The port of a returned Message is 256*b1 + b2 for
\* the last two bytes consumed, to_bytes ends with those two bytes of the
\* port, and the two example vectors, read as requests, return
\* SOCKS5 CONNECT IPV4 127.0.0.1:80 and SOCKS5 UDP DOMAINNAME localhost:443.
C7_Port ==
    /\ (cls = "Message" /\ pc = "returned")
         => result.addr[2] = 256 * stream[pos - 1] + stream[pos]
    /\ (cls = "Message" /\ packet # NoPacket /\ pc \notin {"to_stream", "to_stream_raised"})
         => /\ packet.addr[2] = 256 * stream[Len(stream) - 1] + stream[Len(stream)]
            /\ stream[Len(stream) - 1] < 256
            /\ stream[Len(stream)] < 256
    /\ (cls = "Message" /\ request /\ stream = Example1 /\ pc # "to_stream")
         => /\ pc # "raised"
            /\ (pc = "returned"
                  => result = Message(SOCKS5, CONNECT, IPV4, <<Txt_127_0_0_1, 80>>))
    /\ (cls = "Message" /\ request /\ stream = Example2 /\ pc # "to_stream")
         => /\ pc # "raised"
            /\ (pc = "returned"
                  => result = Message(SOCKS5, UDP, DOMAINNAME, <<Txt_localhost, 443>>))

C7_Witness ==
    /\ cls = "Message"
    /\ packet = NoPacket
    /\ request
    /\ stream = Example2
    /\ pc = "returned"
    /\ result.addr = <<Txt_localhost, 443>>

\* C8: Domain-name length byte.  For a DOMAINNAME Message whose host can be
\* encoded as UTF-8: when to_bytes returns, byte 4 (0-based) is the UTF-8
\* byte length of the host, exactly that many host bytes follow and then the
\* port; when the UTF-8 form is longer than 255 bytes, to_bytes raises and
\* writes nothing.
C8_DomainLength ==
    (/\ cls = "Message"
     /\ packet # NoPacket
     /\ packet.atype = DOMAINNAME
     /\ CanEncode(packet.addr[1])
     /\ pc # "to_stream")
    => LET b == Utf8Encode(packet.addr[1])
       IN  /\ (Len(b) > 255 => pc = "to_stream_raised" /\ stream = <<>>)
           /\ (pc # "to_stream_raised"
                 => /\ stream[5] = Len(b)
                    /\ SubSeq(stream, 6, 5 + Len(b)) = b
                    /\ Len(stream) = 5 + Len(b) + 2)

C8_Witness ==
    /\ cls = "Message"
    /\ packet # NoPacket
    /\ packet.atype = DOMAINNAME
    /\ packet.addr[1] = Repeat(233, 128)
    /\ pc = "to_stream_raised"
    /\ err.kind = "struct.error"
    /\ stream = <<>>

Failed == pc = "raised" \/ err # NoErr \/ ~AllReadsOk

\* C9: Fail-fast decode.  A decode ends with one complete message or with an
\* exception and no message; a failed read or check is the last thing the
\* decoder does: no read follows it, the stream position stays, and no
\* message appears.
C9_FailFast ==
    /\ [](/\ (Failed => pc \in {"raised", "to_stream_raised"} /\ result = NoPacket)
          /\ (\A i \in 1 .. Len(reads) : ~reads[i].ok => i = Len(reads))
          /\ (pc = "returned" <=> result # NoPacket)
          /\ (pc = "returned" => result.cls = cls /\ err = NoErr /\ AllReadsOk))
    /\ [][Failed => UNCHANGED <<pos, reads, result, pc, err>>]_vars

C9_Witness ==
    /\ cls = "Message"
    /\ pc = "raised"
    /\ Len(reads) = 3
    /\ ~reads[3].ok
    /\ pos = Len(stream)
    /\ result = NoPacket

TableBytes(c) ==
    {(IF c = "XXencode" THEN XXencode_table ELSE UUencode_table)[i] : i \in 1 .. 64}

\* C10: The codecs are inverse transforms.  For Plain, XXencode, UUencode
\* and AtBash, decode(encode(x)) = x for every x (the empty string and
\* lengths not divisible by 3 included) and decode never raises; the output
\* of XXencode / UUencode starts with the padding count (3 - len(x) mod 3)
\* mod 3 and goes on with 4 table bytes for every 3 bytes of the padded
\* input; AtBash applied twice gives x back.
C10_Inverse ==
    /\ cpc # "raised"
    /\ (cpc = "done" => decoded = data)
    /\ (cpc \in {"decode", "done"} /\ codec \in {"XXencode", "UUencode"})
         => /\ encoded[1] = (3 - (Len(data) % 3)) % 3
            /\ Len(encoded) = 1 + 4 * ((Len(data) + encoded[1]) \div 3)
            /\ \A i \in 2 .. Len(encoded) : encoded[i] \in TableBytes(codec)
    /\ (cpc \in {"decode", "done"} /\ codec = "AtBash")
         => /\ Len(encoded) = Len(data)
            /\ \A i \in 1 .. Len(data) : encoded[i] = 255 - data[i]
            /\ AtBash_encode(encoded) = data
    /\ (cpc \in {"decode", "done"} /\ codec = "Plain") => encoded = data

C10_Witness ==
    /\ cpc = "done"
    /\ codec = "UUencode"
    /\ data = <<255, 0, 65, 128>>
    /\ encoded[1] = 2
    /\ Len(encoded) = 9
    /\ decoded = data

====
